---- MODULE Spec2Model ----
(***************************************************************************)
(* A model of the AA-tree ordered map (apasel422/tree): the node engine    *)
(* (skew / split / rebalance / insert), the traversal and path-capturing   *)
(* builder, the entry API, the order-statistics queries and the in-order   *)
(* iterator, driven by the public operations of Map.                       *)
(*                                                                         *)
(* A Link (Option<Box<Node>>) is Nil or a node record.  The address of a   *)
(* link slot is the sequence of "L"/"R" steps that leads to it from the    *)
(* root link; a captured Path holds such addresses.                        *)
(***************************************************************************)
EXTENDS Integers, Sequences, FiniteSets, TLC

\* ---------------------------------------------------------------- bounds
MaxKey == 7
MaxValuedKey == 4
MaxStatKey == 4
MaxRangeKey == 4
\* The largest subtree Node::rebalance is applied to on its own, in nodes.
MaxNodes == 15
\* The number of classes of keys the comparator tells apart: every key the
\* specifications use lies below it.
KeyClasses == 64
\* The largest tree an iterator is opened on on its own, in entries.
MaxIterNodes == 8

\* The map is generic in its key, value and augment types.  inst names the
\* instantiation a behaviour runs: "unit" is Map<K, ()> (node/test.rs),
\* "valued" is Map<K, bool> and "orderstat" is the order-statistics
\* instantiation over unit values, whose augment is the subtree size;
\* "ranged" is Map<K, ()> built with the range feature, on which iterators
\* are opened and stepped.
VARIABLE inst

Unit == "()"

Keys ==
    IF inst = "unit" THEN 1..MaxKey
    ELSE IF inst = "valued" THEN 1..MaxValuedKey
    ELSE IF inst = "ranged" THEN 1..MaxRangeKey
    ELSE 1..MaxStatKey
Values == IF inst = "valued" THEN BOOLEAN ELSE {Unit}
Indices == 0..MaxStatKey

\* ------------------------------------------------------- Option and Link
None == <<>>
Some(x) == <<x>>

Nil == <<>>

\* Augment::new: () for the plain map, size 1 for order statistics.
Rank_new == 1
AugmentNew == IF inst = "orderstat" THEN Rank_new ELSE Unit

\* Node::new: a level-1 leaf with a freshly constructed augment.

Node_new(key, value) ==
    [left |-> Nil, right |-> Nil, level |-> 1, key |-> key, value |-> value,
     augment |-> AugmentNew]

\* |node| node.level, with 0 for an absent link (map_or(0, ..)).
level_or0(link) == IF link = Nil THEN 0 ELSE link.level

\* |left| left.augment.0, with 0 for an absent link.
size_or0(link) == IF link = Nil THEN 0 ELSE link.augment

\* Augment::bottom_up of the order-statistics augment.
Rank_bottom_up(l, r) == 1 + l + r

\* A faulty variant of bottom_up that counts the node and its left subtree only.
bottom_up_left_only(node) ==
    IF inst = "orderstat"
    THEN [node EXCEPT !.augment = Rank_bottom_up(size_or0(node.left), 0)]
    ELSE node

\* Node::bottom_up: recompute the augment from the node's current children.
bottom_up(node) ==
    IF inst = "orderstat"
    THEN [node EXCEPT !.augment =
                          Rank_bottom_up(size_or0(node.left), size_or0(node.right))]
    ELSE node

\* The comparator orders key objects by their class: the key objects k and
\* k + KeyClasses are different objects that compare as equal.
Ord(k) == k % KeyClasses

\* cmp.compare for the natural order.
compare(a, b) ==
    IF Ord(a) < Ord(b) THEN "Less" ELSE IF Ord(a) = Ord(b) THEN "Equal" ELSE "Greater"

\* ---------------------------------------------------------- skew / split
skew_cond(node) == node.left # Nil /\ node.left.level = node.level

\* A faulty variant of skew that promotes the left child and never
\* reattaches the demoted node.
skew_unattached(node) ==
    IF skew_cond(node) THEN node.left ELSE node

\* Node::skew: remove a left horizontal link by rotating right.
skew(node) ==
    IF skew_cond(node)
    THEN LET save == node.left
             down == bottom_up([node EXCEPT !.left = save.right])
         IN  [save EXCEPT !.right = down]
    ELSE node

split_cond(node) ==
    /\ node.right # Nil
    /\ node.right.right # Nil
    /\ node.right.right.level = node.level

\* A faulty variant of split that rotates left and leaves the level of the
\* promoted node as it was.
split_level_kept(node) ==
    IF split_cond(node)
    THEN LET save == node.right
             down == bottom_up([node EXCEPT !.right = save.left])
         IN  [save EXCEPT !.left = down]
    ELSE node

\* Node::split: remove a dual horizontal link by rotating left and raising
\* the level of the promoted node.
split(node) ==
    IF split_cond(node)
    THEN LET save == node.right
             down == bottom_up([node EXCEPT !.right = save.left])
         IN  [save EXCEPT !.level = save.level + 1, !.left = down]
    ELSE node

\* if let Some(x) = link { f(x) }
skew_link(link) == IF link = Nil THEN Nil ELSE skew(link)
split_link(link) == IF link = Nil THEN Nil ELSE split(link)

rebalance_cond(node) ==
    \/ level_or0(node.left) < node.level - 1
    \/ level_or0(node.right) < node.level - 1

\* A faulty variant of the level decrement that leaves the level as it was.
lower_omitted(node) == node

\* node.level -= 1
lower(node) == [node EXCEPT !.level = node.level - 1]

\* A faulty variant of the clamp that leaves the right child above the
\* lowered node.
clamp_right_omitted(node, right_level) == node

\* if right_level > node.level { if let Some(x) = node.right { x.level = node.level } }
clamp_right(node, right_level) ==
    IF right_level > node.level /\ node.right # Nil
    THEN [node EXCEPT !.right.level = node.level]
    ELSE node

\* if let Some(x) = right.right { Node::skew(x) }
skew_right_right(right) == [right EXCEPT !.right = skew_link(right.right)]

\* A faulty variant of skew_right that omits the skew of right.right.
skew_right_once(node) ==
    IF node.right # Nil
    THEN [node EXCEPT !.right = skew(node.right)]
    ELSE node

\* if let Some(right) = node.right { Node::skew(right); ... }
skew_right(node) ==
    IF node.right # Nil
    THEN [node EXCEPT !.right = skew_right_right(skew(node.right))]
    ELSE node

\* if let Some(x) = node.right { Node::split(x) }
\* A faulty variant of the last step that leaves the right child unsplit.
split_right_omitted(node) == node

split_right(node) == [node EXCEPT !.right = split_link(node.right)]

\* Node::rebalance: level decrement, right-child clamp, three skews, two splits.
rebalance(node) ==
    IF rebalance_cond(node)
    THEN split_right(split(skew_right(skew(
             clamp_right(lower(node), level_or0(node.right))))))
    ELSE node

\* Node::rebalance: the nodes Node::split is called with: the node once it
\* is skewed, then its right child once the node is split.
split_right_call(node) == IF node.right # Nil THEN <<node.right>> ELSE <<>>
rebalance_split_calls_(skewed) == <<skewed>> \o split_right_call(split(skewed))
rebalance_split_calls(node) ==
    IF rebalance_cond(node)
    THEN rebalance_split_calls_(
             skew_right(skew(clamp_right(lower(node), level_or0(node.right)))))
    ELSE <<>>

\* Node::rebalance: node.level - 1 on usize underflows for a node at level 0.
rebalance_underflows(node) == node.level < 1

\* ---------------------------------------------------------------- insert
RECURSIVE insert(_, _, _)
\* node::insert: returns the new link and the replaced value, if any.
insert(link, key, value) ==
    IF link = Nil
    THEN [link |-> Node_new(key, value), old |-> None]
    ELSE LET order == compare(key, link.key) IN
         IF order = "Equal"
         THEN [link |-> [link EXCEPT !.value = value], old |-> Some(link.value)]
         ELSE LET sub == IF order = "Less"
                         THEN insert(link.left, key, value)
                         ELSE insert(link.right, key, value)
                  n1 == IF order = "Less"
                        THEN [link EXCEPT !.left = sub.link]
                        ELSE [link EXCEPT !.right = sub.link]
              IN  [link |-> bottom_up(split(skew(n1))), old |-> sub.old]

\* The node of an insert call with the subtree the key went to replaced.
with_child(link, key, sub) ==
    IF compare(key, link.key) = "Less"
    THEN [link EXCEPT !.left = sub]
    ELSE [link EXCEPT !.right = sub]
child_towards(link, key) ==
    IF compare(key, link.key) = "Less" THEN link.left ELSE link.right

RECURSIVE insert_split_calls(_, _, _)
\* node::insert: the nodes Node::split is called with, deepest first (each
\* is the node of one call after Node::skew).
insert_split_calls(link, key, value) ==
    IF link = Nil \/ compare(key, link.key) = "Equal" THEN <<>>
    ELSE insert_split_calls(child_towards(link, key), key, value)
             \o <<skew(with_child(link, key,
                                  insert(child_towards(link, key), key, value).link))>>

\* ------------------------------------------------- link addresses, paths
RECURSIVE Sub(_, _)
\* The link stored at address pos below (and including) the link t.
Sub(t, pos) ==
    IF pos = <<>> THEN t
    ELSE IF t = Nil THEN Nil
    ELSE Sub(IF Head(pos) = "L" THEN t.left ELSE t.right, Tail(pos))

RECURSIVE Put(_, _, _)
\* Writing s through the pointer pos.
Put(t, pos, s) ==
    IF pos = <<>> THEN s
    ELSE IF Head(pos) = "L"
         THEN [t EXCEPT !.left = Put(t.left, Tail(pos), s)]
         ELSE [t EXCEPT !.right = Put(t.right, Tail(pos), s)]

RECURSIVE TakeWhileNot(_, _)
\* path.into_iter().take_while(|l| l != link).collect()
TakeWhileNot(path, link) ==
    IF path = <<>> \/ Head(path) = link THEN <<>>
    ELSE <<Head(path)>> \o TakeWhileNot(Tail(path), link)

\* A faulty variant of build_closed that keeps every recorded node.
build_closed_untrimmed(path, link) == [path |-> path, link |-> link]

\* PathBuilder::build_open / build_closed
build_open(path, link) == [path |-> path, link |-> link]
build_closed(path, link) == [path |-> TakeWhileNot(path, link), link |-> link]

\* (node.key, node.value)
item_of(node) == [key |-> node.key, value |-> node.value]

\* link.as_ref().map(|node| (&node.key, &node.value))
link_key_value(link) == IF link = Nil THEN None ELSE Some(item_of(link))

\* Get::build_open: the key and value stored at the terminal link.
key_value(t, p) == link_key_value(Sub(t, p.link))

RECURSIVE find_(_, _, _, _)
\* A faulty variant of find with the path-capturing builder, whose left()
\* records the node and hands out &mut node.right.
find_right_only(root, pos, path, key) ==
    LET node == Sub(root, pos) IN
    IF node = Nil THEN build_closed(path, pos)
    ELSE IF compare(key, node.key) = "Equal" THEN build_closed(path, pos)
         ELSE find_(root, pos \o <<"R">>, Append(path, pos), key)

find_(root, pos, path, key) ==
    LET node == Sub(root, pos) IN
    IF node = Nil THEN build_closed(path, pos)
    ELSE LET order == compare(key, node.key) IN
         IF order = "Equal" THEN build_closed(path, pos)
         ELSE IF order = "Less"
              THEN find_(root, pos \o <<"L">>, Append(path, pos), key)
              ELSE find_(root, pos \o <<"R">>, Append(path, pos), key)

\* node::find with the path-capturing builder, started at the root link.
find(root, key) == find_(root, <<>>, <<>>, key)

RECURSIVE Get_find(_, _)
\* node::find with the read-only Get builder: Get::left and Get::right hand
\* out &node.left and &node.right, Get::build_closed reads the closed link.
Get_find(link, key) ==
    IF link = Nil THEN link_key_value(link)
    ELSE LET order == compare(key, link.key) IN
         IF order = "Equal" THEN link_key_value(link)
         ELSE IF order = "Less" THEN Get_find(link.left, key)
              ELSE Get_find(link.right, key)

\* Extreme::has_forward / Extreme::forward for Min (left) and Max (right).
has_forward(ext, node) == IF ext = "Min" THEN node.left # Nil ELSE node.right # Nil
forward(ext, pos) == IF ext = "Min" THEN pos \o <<"L">> ELSE pos \o <<"R">>
Opposite(ext) == IF ext = "Min" THEN "Max" ELSE "Min"

RECURSIVE extreme_(_, _, _, _)
extreme_(ext, root, pos, path) ==
    LET node == Sub(root, pos) IN
    IF node = Nil THEN build_closed(path, pos)
    ELSE IF has_forward(ext, node)
         THEN extreme_(ext, root, forward(ext, pos), Append(path, pos))
         ELSE build_closed(path, pos)

\* A faulty variant of extreme that never descends.
extreme_at_root(ext, root) == build_closed(<<>>, <<>>)

\* Extreme::extreme with the path-capturing builder, started at the root link.
extreme(ext, root) == extreme_(ext, root, <<>>, <<>>)

RECURSIVE closest_(_, _, _, _, _, _, _)
closest_(ext, root, pos, path, save, key, inclusive) ==
    LET node == Sub(root, pos) IN
    IF node = Nil
    THEN build_closed(path, IF save = None THEN pos ELSE save[1])
    ELSE LET order == compare(key, node.key) IN
         IF order = "Equal"
         THEN IF inclusive THEN build_closed(path, pos)
              ELSE IF has_forward(ext, node)
                   THEN extreme_(Opposite(ext), root, forward(ext, pos), Append(path, pos))
                   ELSE IF save = None
                        THEN build_open(Append(path, pos), forward(ext, pos))
                        ELSE build_closed(path, save[1])
         ELSE IF (ext = "Min") = (order = "Less")
              THEN closest_(ext, root, forward(ext, pos), Append(path, pos), save,
                            key, inclusive)
              ELSE closest_(ext, root, forward(Opposite(ext), pos), Append(path, pos),
                            Some(pos), key, inclusive)

\* A faulty variant of closest that treats every query as inclusive.
closest_inclusive(ext, root, key, inclusive) ==
    closest_(ext, root, <<>>, <<>>, None, key, TRUE)

\* Extreme::closest with the path-capturing builder: Min gives the
\* predecessor, Max the successor.
closest(ext, root, key, inclusive) ==
    closest_(ext, root, <<>>, <<>>, None, key, inclusive)

\* ------------------------------------------------------------- removal
RECURSIVE rebalance_path(_, _)
\* for node in path.into_iter().rev() { Node::rebalance(node) }
rebalance_path(t, path) ==
    IF path = <<>> THEN t
    ELSE LET pos == path[Len(path)]
             t1 == Put(t, pos, rebalance(Sub(t, pos)))
         IN  rebalance_path(t1, SubSeq(path, 1, Len(path) - 1))

RECURSIVE rebalance_path_calls(_, _)
\* The calls of Node::rebalance that the loop over the path makes, in call
\* order: the address of each link and the node it holds when it is called.
rebalance_path_calls(t, path) ==
    IF path = <<>> THEN <<>>
    ELSE LET pos == path[Len(path)]
             t1 == Put(t, pos, rebalance(Sub(t, pos)))
         IN  <<[pos |-> pos, node |-> Sub(t, pos)]>>
                 \o rebalance_path_calls(t1, SubSeq(path, 1, Len(path) - 1))

RECURSIVE remove_(_, _)

\* A faulty variant of extract that takes the near extreme of each subtree:
\* the left subtree's minimum, else the right subtree's maximum.
extract_near(node) ==
    IF node.left # Nil
    THEN remove_(node.left, extreme("Min", node.left))
    ELSE IF node.right # Nil
         THEN remove_(node.right, extreme("Max", node.right))
         ELSE [tree |-> Nil, key_value |-> None]

\* The replacement: the left subtree's maximum, else the right subtree's
\* minimum, extracted by a nested remove_; None for a node without children.
extract(node) ==
    IF node.left # Nil
    THEN remove_(node.left, extreme("Max", node.left))
    ELSE IF node.right # Nil
         THEN remove_(node.right, extreme("Min", node.right))
         ELSE [tree |-> Nil, key_value |-> None]

\* A faulty variant of swap_in that replaces the key and keeps the value.
swap_in_key_only(node, inner) ==
    IF node.left # Nil
    THEN [node EXCEPT !.left = inner.tree, !.key = inner.key_value[1].key]
    ELSE [node EXCEPT !.right = inner.tree, !.key = inner.key_value[1].key]

\* replace(&mut node.key, ..), replace(&mut node.value, ..) over the child
\* the replacement was taken from.
swap_in(node, inner) ==
    IF node.left # Nil
    THEN [node EXCEPT !.left = inner.tree, !.key = inner.key_value[1].key,
                      !.value = inner.key_value[1].value]
    ELSE [node EXCEPT !.right = inner.tree, !.key = inner.key_value[1].key,
                      !.value = inner.key_value[1].value]

\* What the terminal link holds afterwards: the node with the replacement
\* swapped in and rebalanced, or nothing (self.link.take()).
after_removal(node, inner) ==
    IF inner.key_value # None THEN rebalance(swap_in(node, inner)) ELSE Nil

\* A faulty variant of remove_ that returns what the link holds afterwards
\* (the replacement) when the removed node had a child.
remove_node_returns_new(t, p, node) ==
    IF node = Nil THEN [tree |-> t, key_value |-> None]
    ELSE [tree |-> rebalance_path(Put(t, p.link, after_removal(node, extract(node))),
                                  p.path),
          key_value |-> IF extract(node).key_value # None
                        THEN extract(node).key_value
                        ELSE Some(item_of(node))]

remove_node(t, p, node) ==
    IF node = Nil THEN [tree |-> t, key_value |-> None]
    ELSE [tree |-> rebalance_path(Put(t, p.link, after_removal(node, extract(node))),
                                  p.path),
          key_value |-> Some(item_of(node))]

\* Path::remove_ on the tree whose root link is t: the entry at the terminal
\* link is removed, then the captured ancestors are rebalanced deepest first.
remove_(t, p) == remove_node(t, p, Sub(t, p.link))

\* Path::remove_ on an occupied link: the calls of Node::rebalance on the
\* captured ancestors, made once the terminal link holds its new content.
replayed(t, p) ==
    rebalance_path_calls(
        Put(t, p.link, after_removal(Sub(t, p.link), extract(Sub(t, p.link)))), p.path)

RECURSIVE remove_calls(_, _)
\* Path::remove_: every node Node::rebalance is called with, in call order:
\* those of the nested remove_ that extracts the replacement, the node that
\* received the replacement, then the captured ancestors.
extract_calls(node) ==
    IF node.left # Nil THEN remove_calls(node.left, extreme("Max", node.left))
    ELSE IF node.right # Nil THEN remove_calls(node.right, extreme("Min", node.right))
    ELSE <<>>
swapped_call(node, inner) ==
    IF inner.key_value # None THEN <<swap_in(node, inner)>> ELSE <<>>
nodes_of(calls) == [i \in 1..Len(calls) |-> calls[i].node]
remove_node_calls(t, p, node) ==
    IF node = Nil THEN <<>>
    ELSE extract_calls(node) \o swapped_call(node, extract(node)) \o nodes_of(replayed(t, p))
remove_calls(t, p) == remove_node_calls(t, p, Sub(t, p.link))

RECURSIVE unlinked(_, _)
\* Path::remove_: the node self.link.take() takes out of the tree, in this
\* call or in the nested call that extracts the replacement.
unlinked_node(node) ==
    IF node.left # Nil THEN unlinked(node.left, extreme("Max", node.left))
    ELSE IF node.right # Nil THEN unlinked(node.right, extreme("Min", node.right))
    ELSE node
unlinked(t, p) == IF Sub(t, p.link) = Nil THEN Nil ELSE unlinked_node(Sub(t, p.link))

RECURSIVE remove_depth(_, _)
\* Path::remove_: the number of remove_ calls on the stack at the deepest
\* point, this call included.
remove_depth_node(node) ==
    IF node.left # Nil THEN 1 + remove_depth(node.left, extreme("Max", node.left))
    ELSE IF node.right # Nil THEN 1 + remove_depth(node.right, extreme("Min", node.right))
    ELSE 1
remove_depth(t, p) == IF Sub(t, p.link) = Nil THEN 1 ELSE remove_depth_node(Sub(t, p.link))

\* A faulty variant of counted that decrements whatever remove_ returned.
counted_always(r, n) ==
    [tree |-> r.tree, key_value |-> r.key_value, len |-> n - 1]

\* if key_value.is_some() { *len -= 1; }
counted(r, n) ==
    [tree |-> r.tree, key_value |-> r.key_value,
     len |-> IF r.key_value # None THEN n - 1 ELSE n]

\* Path::remove: remove_ and the length decrement.
Path_remove(t, n, p) == counted(remove_(t, p), n)

\* ------------------------------------------------------------ entry API
RECURSIVE replay_insert(_, _)
\* A faulty variant of the replay that applies skew and split and leaves the
\* augments as they were.
replay_insert_unaugmented(t, path) ==
    IF path = <<>> THEN t
    ELSE LET pos == path[Len(path)]
             t1 == Put(t, pos, split(skew(Sub(t, pos))))
         IN  replay_insert(t1, SubSeq(path, 1, Len(path) - 1))

\* for node in path.into_iter().rev() { skew; split; bottom_up }
replay_insert(t, path) ==
    IF path = <<>> THEN t
    ELSE LET pos == path[Len(path)]
             t1 == Put(t, pos, bottom_up(split(skew(Sub(t, pos)))))
         IN  replay_insert(t1, SubSeq(path, 1, Len(path) - 1))

RECURSIVE replay_split_calls(_, _)
\* VacantEntry::insert: the nodes Node::split is called with along the path.
replay_split_calls(t, path) ==
    IF path = <<>> THEN <<>>
    ELSE <<skew(Sub(t, path[Len(path)]))>>
             \o replay_split_calls(
                    Put(t, path[Len(path)], bottom_up(split(skew(Sub(t, path[Len(path)]))))),
                    SubSeq(path, 1, Len(path) - 1))

\* VacantEntry::insert on the path p: the split calls of its replay.
VacantEntry_insert_split_calls(t, p, key, value) ==
    replay_split_calls(Put(t, p.link, Node_new(key, value)), p.path)

\* A faulty variant of VacantEntry::insert that leaves len alone.
VacantEntry_insert_uncounted(t, n, p, key, value) ==
    [tree |-> replay_insert(Put(t, p.link, Node_new(key, value)), p.path),
     len |-> n]

\* VacantEntry::insert
VacantEntry_insert(t, n, p, key, value) ==
    [tree |-> replay_insert(Put(t, p.link, Node_new(key, value)), p.path),
     len |-> n + 1]

\* Path::into_entry / into_occupied_entry: occupied iff the link holds a node.
is_occupied(t, p) == Sub(t, p.link) # Nil

\* OccupiedEntry::get: the value at the terminal link.
OccupiedEntry_get(t, p) == Sub(t, p.link).value

\* A faulty variant of OccupiedEntry::insert that returns the old value and
\* stores nothing.
OccupiedEntry_insert_discard(t, p, value) ==
    [tree |-> t, old |-> OccupiedEntry_get(t, p)]

\* OccupiedEntry::insert: replace(self.get_mut(), value)
OccupiedEntry_insert(t, p, value) ==
    [tree |-> Put(t, p.link, [Sub(t, p.link) EXCEPT !.value = value]),
     old |-> OccupiedEntry_get(t, p)]

\* -------------------------------------------------- read-only queries
\* Map::get / contains_key / min / max / pred / succ
\* .map(|e| e.1)
value_of(kv) == IF kv = None THEN None ELSE Some(kv[1].value)
get(t, key) == value_of(key_value(t, find(t, key)))
contains_key(t, key) == get(t, key) # None
Map_min(t) == key_value(t, extreme("Min", t))
Map_max(t) == key_value(t, extreme("Max", t))
pred(t, key, inclusive) == key_value(t, closest("Min", t, key, inclusive))
succ(t, key, inclusive) == key_value(t, closest("Max", t, key, inclusive))

RECURSIVE rank_(_, _, _)
rank_(link, key, r) ==
    IF link = Nil THEN [ok |-> FALSE, n |-> r]
    ELSE LET order == compare(key, link.key) IN
         IF order = "Less" THEN rank_(link.left, key, r)
         ELSE IF order = "Equal" THEN [ok |-> TRUE, n |-> r + size_or0(link.left)]
         ELSE rank_(link.right, key, r + size_or0(link.left) + 1)

\* node::rank: Ok(n) / Err(n)
rank(t, key) == rank_(t, key, 0)

RECURSIVE select_(_, _, _, _)
select_(root, pos, path, index) ==
    LET node == Sub(root, pos) IN
    IF node = Nil THEN build_open(path, pos)
    ELSE LET r == size_or0(node.left) IN
         IF index = r THEN build_open(path, pos)
         ELSE IF index < r
              THEN select_(root, pos \o <<"L">>, Append(path, pos), index)
              ELSE select_(root, pos \o <<"R">>, Append(path, pos), index - (r + 1))

RECURSIVE select_underflows(_, _)
\* node::select: index -= r + 1 on usize underflows when index < r + 1.
select_underflows(link, index) ==
    IF link = Nil THEN FALSE
    ELSE IF index = size_or0(link.left) THEN FALSE
    ELSE IF index < size_or0(link.left) THEN select_underflows(link.left, index)
    ELSE \/ index < size_or0(link.left) + 1
         \/ select_underflows(link.right, index - (size_or0(link.left) + 1))

\* node::select with the path-capturing builder, started at the root link.
select_path(t, index) == select_(t, <<>>, <<>>, index)
select(t, index) == key_value(t, select_path(t, index))


\* ------------------------------------------------------------ iteration
\* Visit::new
Visit_new(node) == [node |-> node, seen |-> "N"]

\* A faulty variant of Visit::left that hands out the left child only from
\* an unvisited frame: a frame whose right child was taken first is marked
\* and yields no left child.
Visit_left_unvisited_only(visit) ==
    IF visit.seen = "N" THEN [visit |-> [visit EXCEPT !.seen = "L"], child |-> visit.node.left]
    ELSE IF visit.seen = "R"
         THEN [visit |-> [visit EXCEPT !.seen = "B"], child |-> Nil]
         ELSE [visit |-> visit, child |-> Nil]

\* A faulty variant of Visit::left that hands out the left child again from
\* a frame that is marked as having seen it.
Visit_left_again(visit) ==
    IF visit.seen = "N" THEN [visit |-> [visit EXCEPT !.seen = "L"], child |-> visit.node.left]
    ELSE IF visit.seen = "R"
         THEN [visit |-> [visit EXCEPT !.seen = "B"], child |-> visit.node.left]
         ELSE [visit |-> visit, child |-> visit.node.left]

\* Visit::left / Visit::right: the child handed out and the updated marker.
Visit_left(visit) ==
    IF visit.seen = "N" THEN [visit |-> [visit EXCEPT !.seen = "L"], child |-> visit.node.left]
    ELSE IF visit.seen = "R"
         THEN [visit |-> [visit EXCEPT !.seen = "B"], child |-> visit.node.left]
         ELSE [visit |-> visit, child |-> Nil]

Visit_right(visit) ==
    IF visit.seen = "N" THEN [visit |-> [visit EXCEPT !.seen = "R"], child |-> visit.node.right]
    ELSE IF visit.seen = "L"
         THEN [visit |-> [visit EXCEPT !.seen = "B"], child |-> visit.node.right]
         ELSE [visit |-> visit, child |-> Nil]

\* NodeRef::item
Visit_item(visit) == [key |-> visit.node.key, value |-> visit.node.value]

\* Iter::new: visits.front is index 1, visits.back is index Len(visits).
Iter_new(t, size) ==
    [visits |-> IF t = Nil THEN <<>> ELSE <<Visit_new(t)>>, size |-> size]

\* A faulty variant of the push in next() that pushes at the front.
push_back_opt_front(visits, link) ==
    IF link = Nil THEN visits ELSE <<Visit_new(link)>> \o visits

push_back_opt(visits, link) == IF link = Nil THEN visits ELSE Append(visits, Visit_new(link))
pop_back(visits) == SubSeq(visits, 1, Len(visits) - 1)

\* A faulty variant of range_size_hint that answers as size_hint does.
Iter_range_size_hint_exact(it) == <<it.size, Some(it.size)>>

\* Iter::range_size_hint: (self.visits.len(), Some(self.size))
Iter_range_size_hint(it) == <<Len(it.visits), Some(it.size)>>

\* Iterator::size_hint for Iter: (self.size, Some(self.size))
Iter_size_hint(it) == <<it.size, Some(it.size)>>

RECURSIVE Iter_next(_)
\* A faulty variant of next() that also decrements the remaining count when
\* it descends into a left child.
Iter_next_descent_counted(it) ==
    IF it.visits = <<>> THEN [it |-> it, item |-> None]
    ELSE LET n == Len(it.visits)
             visit == it.visits[n]
         IN  IF visit.seen \in {"N", "R"}
             THEN LET l == Visit_left(visit)
                      marked == [it.visits EXCEPT ![n] = l.visit]
                  IN  Iter_next([visits |-> push_back_opt(marked, l.child),
                                 size |-> IF l.child # Nil THEN it.size - 1 ELSE it.size])
             ELSE IF visit.seen = "L"
                  THEN LET r == Visit_right(visit)
                       IN  [it |-> [visits |-> push_back_opt(pop_back(it.visits), r.child),
                                    size |-> it.size - 1],
                            item |-> Some(Visit_item(visit))]
                  ELSE [it |-> [visits |-> pop_back(it.visits), size |-> it.size - 1],
                        item |-> Some(Visit_item(visit))]

\* Iterator::next for Iter
Iter_next(it) ==
    IF it.visits = <<>> THEN [it |-> it, item |-> None]
    ELSE LET n == Len(it.visits)
             visit == it.visits[n]
         IN  IF visit.seen \in {"N", "R"}
             THEN LET l == Visit_left(visit)
                      marked == [it.visits EXCEPT ![n] = l.visit]
                  IN  Iter_next([it EXCEPT !.visits = push_back_opt(marked, l.child)])
             ELSE IF visit.seen = "L"
                  THEN LET r == Visit_right(visit)
                       IN  [it |-> [visits |-> push_back_opt(pop_back(it.visits), r.child),
                                    size |-> it.size - 1],
                            item |-> Some(Visit_item(visit))]
                  ELSE [it |-> [visits |-> pop_back(it.visits), size |-> it.size - 1],
                        item |-> Some(Visit_item(visit))]

RECURSIVE collect(_)
\* Draining an iterator with next() until it returns None.
collect(it) ==
    LET r == Iter_next(it) IN
    IF r.item = None THEN <<>> ELSE <<r.item[1]>> \o collect(r.it)

\* Map::iter, collected: the ascending iteration of the map.
iter(t, n) == collect(Iter_new(t, n))

\* push_front / pop_front of the deque
push_front_opt(visits, link) == IF link = Nil THEN visits ELSE <<Visit_new(link)>> \o visits
\* A faulty variant of pop_front that pops at the back.
pop_front_back(visits) == SubSeq(visits, 1, Len(visits) - 1)

pop_front(visits) == Tail(visits)

RECURSIVE Iter_next_back(_)
\* DoubleEndedIterator::next_back for Iter
Iter_next_back(it) ==
    IF it.visits = <<>> THEN [it |-> it, item |-> None]
    ELSE LET visit == it.visits[1]
         IN  IF visit.seen \in {"N", "L"}
             THEN LET r == Visit_right(visit)
                      marked == [it.visits EXCEPT ![1] = r.visit]
                  IN  Iter_next_back([it EXCEPT !.visits = push_front_opt(marked, r.child)])
             ELSE IF visit.seen = "R"
                  THEN LET l == Visit_left(visit)
                       IN  [it |-> [visits |-> push_front_opt(pop_front(it.visits), l.child),
                                    size |-> it.size - 1],
                            item |-> Some(Visit_item(visit))]
                  ELSE [it |-> [visits |-> pop_front(it.visits), size |-> it.size - 1],
                        item |-> Some(Visit_item(visit))]

RECURSIVE collect_back(_)
\* Draining an iterator with next_back() until it returns None (rev()).
collect_back(it) ==
    LET r == Iter_next_back(it) IN
    IF r.item = None THEN <<>> ELSE <<r.item[1]>> \o collect_back(r.it)

\* std::collections::Bound
Unbounded == [kind |-> "Unbounded", key |-> 0]
Included(x) == [kind |-> "Included", key |-> x]
Excluded(x) == [kind |-> "Excluded", key |-> x]
Bounds == {Unbounded} \cup {Included(x) : x \in Keys} \cup {Excluded(x) : x \in Keys}

\* bound_to_opt
bound_to_opt(bound) ==
    IF bound.kind = "Unbounded" THEN None
    ELSE Some([key |-> bound.key, inc |-> bound.kind = "Included"])

\* A faulty variant of the included lower bound that leaves the visit
\* unmarked, so that its left subtree is still descended into.
min_included_unmarked(it, l) == it

\* if visit.left().is_some() { it.size -= 1; }  (the visit keeps its marker)
min_included(it, l) ==
    [visits |-> [it.visits EXCEPT ![Len(it.visits)] = l.visit],
     size |-> IF l.child # Nil THEN it.size - 1 ELSE it.size]

\* Op::PopPush at the back: pop_back, size -= 1, push_back of the child
min_pop_push(it, r) ==
    [visits |-> push_back_opt(pop_back(it.visits), r.child), size |-> it.size - 1]

\* Op::Push at the back, with the marker visit.left() has set
min_push(it, l) ==
    [visits |-> push_back_opt([it.visits EXCEPT ![Len(it.visits)] = l.visit], l.child),
     size |-> it.size]

RECURSIVE trim_min(_, _, _)
\* Iter::range: the loop that trims below the lower bound, at the back.
trim_min(it, min, inc) ==
    IF it.visits = <<>> THEN it
    ELSE LET visit == it.visits[Len(it.visits)]
             order == compare(min, visit.node.key)
         IN  IF order = "Equal"
             THEN IF inc THEN min_included(it, Visit_left(visit))
                  ELSE min_pop_push(it, Visit_right(visit))
             ELSE IF order = "Greater"
                  THEN trim_min(min_pop_push(it, Visit_right(visit)), min, inc)
                  ELSE IF Visit_left(visit).child = Nil
                       THEN min_push(it, Visit_left(visit))
                       ELSE trim_min(min_push(it, Visit_left(visit)), min, inc)

\* A faulty variant of the included upper bound that leaves the frame's
\* marker as it was.
max_included_unmarked(it, r) == it

\* if visit.right().is_some() { it.size -= 1; }
max_included(it, r) ==
    [visits |-> [it.visits EXCEPT ![1] = r.visit],
     size |-> IF r.child # Nil THEN it.size - 1 ELSE it.size]

\* A faulty variant of the front PopPush that decrements the remaining count
\* twice for the one frame it pops.
max_pop_push_twice(it, l) ==
    [visits |-> push_front_opt(pop_front(it.visits), l.child), size |-> it.size - 2]

\* Op::PopPush at the front: pop_front, size -= 1, push_front of the child
max_pop_push(it, l) ==
    [visits |-> push_front_opt(pop_front(it.visits), l.child), size |-> it.size - 1]

\* Op::Push at the front, with the marker visit.right() has set
max_push(it, r) ==
    [visits |-> push_front_opt([it.visits EXCEPT ![1] = r.visit], r.child),
     size |-> it.size]

RECURSIVE trim_max(_, _, _)
\* Iter::range: the loop that trims above the upper bound, at the front.
trim_max(it, max, inc) ==
    IF it.visits = <<>> THEN it
    ELSE LET visit == it.visits[1]
             order == compare(max, visit.node.key)
         IN  IF order = "Equal"
             THEN IF inc THEN max_included(it, Visit_right(visit))
                  ELSE max_pop_push(it, Visit_left(visit))
             ELSE IF order = "Less"
                  THEN trim_max(max_pop_push(it, Visit_left(visit)), max, inc)
                  ELSE IF Visit_right(visit).child = Nil
                       THEN max_push(it, Visit_right(visit))
                       ELSE trim_max(max_push(it, Visit_right(visit)), max, inc)

\* if let Some((min, inc)) = bound_to_opt(min) { loop { .. } }
trim_min_opt(it, b) == IF b = None THEN it ELSE trim_min(it, b[1].key, b[1].inc)
trim_max_opt(it, b) == IF b = None THEN it ELSE trim_max(it, b[1].key, b[1].inc)

\* Iter::range
Iter_range(t, size, min, max) ==
    trim_max_opt(trim_min_opt(Iter_new(t, size), bound_to_opt(min)), bound_to_opt(max))

\* Map::range, collected from the front.
range(t, n, min, max) == collect(Iter_range(t, n, min, max))

\* ----------------------------------------------------------------- state
\* root and len are the fields of Map; op and ret record the last public
\* call and what it returned.
VARIABLES root, len, op, ret

\* The iterator borrowed from the map, if any: opened_by is "none", "iter" or
\* "range", iterator is the Iter value, range_min and range_max are the bounds
\* it was opened with, yielded and yielded_back are the items next() and
\* next_back() have returned so far, in the order they were returned.
VARIABLES opened_by, iterator, range_min, range_max, yielded, yielded_back

vars ==
    <<inst, root, len, op, ret,
      opened_by, iterator, range_min, range_max, yielded, yielded_back>>

\* No iterator borrows the map.
NoIterator ==
    [opened_by |-> "none", iterator |-> [visits |-> <<>>, size |-> 0],
     range_min |-> Unbounded, range_max |-> Unbounded]

Call(name, key, value, inclusive) ==
    [name |-> name, key |-> key, value |-> value, inclusive |-> inclusive]

\* Map::with_cmp
New ==
    /\ root = Nil
    /\ len = 0
    /\ op = Call("new", 0, Unit, FALSE)
    /\ ret = None
    /\ opened_by = NoIterator.opened_by
    /\ iterator = NoIterator.iterator
    /\ range_min = NoIterator.range_min
    /\ range_max = NoIterator.range_max
    /\ yielded = <<>>
    /\ yielded_back = <<>>

\* Any of the instantiations over unit values.
InitAny == inst \in {"unit", "ranged", "orderstat"} /\ New
\* The instantiation with values that differ and the one with augments.
InitEqual == inst \in {"valued", "orderstat"} /\ New
Init == inst = "valued" /\ New
InitUnit == inst = "unit" /\ New
InitOrderStat == inst = "orderstat" /\ New
InitRanged == inst = "ranged" /\ New

\* The call is recorded; the instantiation is fixed at construction.  A call
\* that takes &mut self ends the borrow of any iterator.
Called(name, key, value, inclusive) ==
    /\ op' = Call(name, key, value, inclusive)
    /\ inst' = inst
    /\ opened_by' = NoIterator.opened_by
    /\ iterator' = NoIterator.iterator
    /\ range_min' = NoIterator.range_min
    /\ range_max' = NoIterator.range_max
    /\ yielded' = <<>>
    /\ yielded_back' = <<>>

\* Map::clear
Clear ==
    /\ root' = Nil
    /\ len' = 0
    /\ Called("clear", 0, Unit, FALSE)
    /\ ret' = None

\* A faulty variant of Inserted that counts every insert as a new entry.
Inserted_always_counted(k, v, r) ==
    /\ root' = r.link
    /\ len' = len + 1
    /\ Called("insert", k, v, FALSE)
    /\ ret' = r.old

\* if old_value.is_none() { self.len += 1; }
Inserted(k, v, r) ==
    /\ root' = r.link
    /\ len' = IF r.old = None THEN len + 1 ELSE len
    /\ Called("insert", k, v, FALSE)
    /\ ret' = r.old

\* Map::insert
Insert(k, v) == Inserted(k, v, insert(root, k, v))

Removed(name, k, inclusive, r) ==
    /\ root' = r.tree
    /\ len' = r.len
    /\ Called(name, k, Unit, inclusive)
    /\ ret' = r.key_value

\* A removal through a captured path: Path::remove.
RemoveAt(name, k, inclusive, p) == Removed(name, k, inclusive, Path_remove(root, len, p))

\* OccupiedEntry::remove on an optional occupied entry (None when vacant).
EntryRemoveAt(name, k, inclusive, p) ==
    IF is_occupied(root, p)
    THEN RemoveAt(name, k, inclusive, p)
    ELSE /\ Called(name, k, Unit, inclusive)
         /\ ret' = None
         /\ UNCHANGED <<root, len>>

\* Map::remove / remove_min / remove_max / remove_pred / remove_succ
Remove(k) == RemoveAt("remove", k, FALSE, find(root, k))
RemoveMin == RemoveAt("remove_min", 0, FALSE, extreme("Min", root))
RemoveMax == RemoveAt("remove_max", 0, FALSE, extreme("Max", root))
RemovePred(k, inc) == RemoveAt("remove_pred", k, inc, closest("Min", root, k, inc))
RemoveSucc(k, inc) == RemoveAt("remove_succ", k, inc, closest("Max", root, k, inc))

\* Map::remove_select (order statistics)
RemoveSelect(i) == RemoveAt("remove_select", i, FALSE, select_path(root, i))

\* Map::entry / min_entry / max_entry / pred_entry / succ_entry followed by
\* OccupiedEntry::remove
EntryRemove(k) == EntryRemoveAt("entry_remove", k, FALSE, find(root, k))
MinEntryRemove == EntryRemoveAt("min_entry_remove", 0, FALSE, extreme("Min", root))
MaxEntryRemove == EntryRemoveAt("max_entry_remove", 0, FALSE, extreme("Max", root))
PredEntryRemove(k, inc) ==
    EntryRemoveAt("pred_entry_remove", k, inc, closest("Min", root, k, inc))
SuccEntryRemove(k, inc) ==
    EntryRemoveAt("succ_entry_remove", k, inc, closest("Max", root, k, inc))

\* A faulty variant that does not hand the replaced value back.
OccupiedInserted_unreported(r) ==
    /\ root' = r.tree
    /\ len' = len
    /\ ret' = None

\* OccupiedEntry::insert through Map::entry
OccupiedInserted(r) ==
    /\ root' = r.tree
    /\ len' = len
    /\ ret' = Some(r.old)

\* VacantEntry::insert through Map::entry; ret is what the caller gets back.
VacantInserted(r, back) ==
    /\ root' = r.tree
    /\ len' = r.len
    /\ ret' = back

EntryInsertAt(k, v, p) ==
    /\ Called("entry_insert", k, v, FALSE)
    /\ IF is_occupied(root, p)
       THEN OccupiedInserted(OccupiedEntry_insert(root, p, v))
       ELSE VacantInserted(VacantEntry_insert(root, len, p, k, v), None)

\* Map::entry(k) then OccupiedEntry::insert or VacantEntry::insert
EntryInsert(k, v) == EntryInsertAt(k, v, find(root, k))

\* A faulty variant of or_insert that stores the default over an occupied
\* entry as well.
EntryOrInsertAt_overwrite(k, v, p) ==
    /\ Called("or_insert", k, v, FALSE)
    /\ IF is_occupied(root, p)
       THEN /\ root' = OccupiedEntry_insert(root, p, v).tree
            /\ len' = len
            /\ ret' = Some(v)
       ELSE VacantInserted(VacantEntry_insert(root, len, p, k, v), Some(v))

EntryOrInsertAt(k, v, p) ==
    /\ Called("or_insert", k, v, FALSE)
    /\ IF is_occupied(root, p)
       THEN /\ ret' = Some(OccupiedEntry_get(root, p))
            /\ UNCHANGED <<root, len>>
       ELSE VacantInserted(VacantEntry_insert(root, len, p, k, v), Some(v))

\* Map::entry(k).or_insert(v): a reference to the value under k is returned
\* (Occupied: into_mut; Vacant: the value just stored).
EntryOrInsert(k, v) == EntryOrInsertAt(k, v, find(root, k))

\* An iterator is handed out: nothing has been yielded yet.
Opened(name, it, min, max) ==
    /\ opened_by' = name
    /\ iterator' = it
    /\ range_min' = min
    /\ range_max' = max
    /\ yielded' = <<>>
    /\ yielded_back' = <<>>
    /\ op' = Call(name, 0, Unit, FALSE)
    /\ ret' = None
    /\ UNCHANGED <<inst, root, len>>

\* Map::iter
MapIter == Opened("iter", Iter_new(root, len), Unbounded, Unbounded)

\* Map::range
MapRange(min, max) == Opened("range", Iter_range(root, len, min, max), min, max)

\* One call on the open iterator has returned r.item and left it as r.it.
Stepped(name, r) ==
    /\ iterator' = r.it
    /\ op' = Call(name, 0, Unit, FALSE)
    /\ ret' = r.item
    /\ UNCHANGED <<inst, root, len, opened_by, range_min, range_max>>

\* Iterator::next on the open iterator
IterNext ==
    /\ opened_by # "none"
    /\ Stepped("next", Iter_next(iterator))
    /\ yielded' = yielded \o Iter_next(iterator).item
    /\ yielded_back' = yielded_back

\* DoubleEndedIterator::next_back on the open iterator
IterNextBack ==
    /\ opened_by # "none"
    /\ Stepped("next_back", Iter_next_back(iterator))
    /\ yielded_back' = yielded_back \o Iter_next_back(iterator).item
    /\ yielded' = yielded

Next ==
    \/ Clear
    \/ \E k \in Keys, v \in Values : Insert(k, v)
    \/ \E k \in Keys, v \in Values : EntryInsert(k, v)
    \/ \E k \in Keys, v \in Values : EntryOrInsert(k, v)
    \/ \E k \in Keys : Remove(k)
    \/ RemoveMin
    \/ RemoveMax
    \/ \E k \in Keys, inc \in BOOLEAN : RemovePred(k, inc)
    \/ \E k \in Keys, inc \in BOOLEAN : RemoveSucc(k, inc)
    \/ \E k \in Keys : EntryRemove(k)
    \/ MinEntryRemove
    \/ MaxEntryRemove
    \/ \E k \in Keys, inc \in BOOLEAN : PredEntryRemove(k, inc)
    \/ \E k \in Keys, inc \in BOOLEAN : SuccEntryRemove(k, inc)

\* Map::insert and Map::entry(..) followed by insert, called with another
\* key object that compares as equal to a key the map holds.
InsertEqual(k, v) ==
    /\ is_occupied(root, find(root, k))
    /\ Insert(k + KeyClasses, v)
EntryInsertEqual(k, v) ==
    /\ is_occupied(root, find(root, k))
    /\ EntryInsert(k + KeyClasses, v)

\* The public calls, with keys that are equal to stored ones and not the
\* same object.
NextEqual ==
    \/ Next
    \/ \E k \in Keys, v \in Values : InsertEqual(k, v)
    \/ \E k \in Keys, v \in Values : EntryInsertEqual(k, v)

NextOrderStat ==
    \/ Next
    \/ \E i \in Indices : RemoveSelect(i)

NextRanged ==
    \/ Next
    \/ MapIter
    \/ \E min \in Bounds, max \in Bounds : MapRange(min, max)
    \/ IterNext
    \/ IterNextBack

\* The calls that only insert: Map::insert, and Map::entry followed by
\* insert or or_insert.
NextInsertOnly ==
    \/ \E k \in Keys, v \in Values : Insert(k, v)
    \/ \E k \in Keys, v \in Values : EntryInsert(k, v)
    \/ \E k \in Keys, v \in Values : EntryOrInsert(k, v)

\* The operations node/test.rs drives a Map<K, ()> with: Insert, Remove,
\* RemoveMax, RemoveMin, EntryInsert (entry(key).or_insert(())) and
\* EntryRemove.
NextExec ==
    \/ \E k \in Keys, v \in Values : Insert(k, v)
    \/ \E k \in Keys : Remove(k)
    \/ RemoveMax
    \/ RemoveMin
    \/ \E k \in Keys, v \in Values : EntryOrInsert(k, v)
    \/ \E k \in Keys : EntryRemove(k)

\* The operations of node/test.rs on any instantiation, the iterators of
\* the instantiation built with the range feature, and remove_select of the
\* order-statistics instantiation.
NextAny ==
    \/ NextExec
    \/ /\ inst = "ranged"
       /\ \/ MapIter
          \/ \E min \in Bounds, max \in Bounds : MapRange(min, max)
          \/ IterNext
          \/ IterNextBack
    \/ /\ inst = "orderstat"
       /\ \E i \in Indices : RemoveSelect(i)

Spec == Init /\ [][Next]_vars
SpecUnit == InitUnit /\ [][Next]_vars
SpecOrderStat == InitOrderStat /\ [][NextOrderStat]_vars
SpecRanged == InitRanged /\ [][NextRanged]_vars

SpecExec == InitUnit /\ [][NextExec]_vars
SpecEqual == InitEqual /\ [][NextEqual]_vars
SpecAny == InitAny /\ [][NextAny]_vars
SpecInsertOnly == InitOrderStat /\ [][NextInsertOnly]_vars

\* ======================================================================
\* Properties
\* ======================================================================

\* ------------------------------------------------------- tree measures
RECURSIVE InOrder(_)
\* The entries of the tree read left subtree, node, right subtree.
InOrder(t) ==
    IF t = Nil THEN <<>>
    ELSE InOrder(t.left) \o <<item_of(t)>> \o InOrder(t.right)

RECURSIVE Count(_)
\* The number of nodes reachable from the link.
Count(t) == IF t = Nil THEN 0 ELSE 1 + Count(t.left) + Count(t.right)

StrictlyAscending(items) ==
    \A i \in 1..(Len(items) - 1) : compare(items[i].key, items[i + 1].key) = "Less"

WithoutKey(items, k) == SelectSeq(items, LAMBDA e : e.key # k)
OnlyKey(items, k) == SelectSeq(items, LAMBDA e : e.key = k)

InsertCalls == {"insert", "entry_insert"}
RemovalCalls ==
    {"remove", "remove_min", "remove_max", "remove_pred", "remove_succ",
     "entry_remove", "min_entry_remove", "max_entry_remove",
     "pred_entry_remove", "succ_entry_remove"}

TypeOK == len \in 0..MaxKey

RECURSIVE AALevels(_)
\* The AA level rules at every node below the link.
AALevels(t) ==
    \/ t = Nil
    \/ /\ (t.left = Nil \/ t.right = Nil) => t.level = 1
       /\ t.left # Nil => t.left.level = t.level - 1
       /\ t.right # Nil => t.right.level \in {t.level, t.level - 1}
       /\ (t.right # Nil /\ t.right.level = t.level /\ t.right.right # Nil)
              => t.right.right.level # t.level
       /\ AALevels(t.left)
       /\ AALevels(t.right)

\* C1: after any sequence of inserts and removals on an initially empty map
\* every node satisfies the AA level rules: a node missing a child has level
\* 1, a left child is exactly one level below its parent, a right child is at
\* its parent's level or one below, and a right child at its parent's level
\* has no right child at that level.
C1_AALevelRules == AALevels(root)

\* A removal from the seven-entry, level-3 tree has just rebalanced the root.
C1_Witness ==
    /\ op.name \in RemovalCalls
    /\ ret # None
    /\ len = 6
    /\ root.level = 2

\* C2: after every public call the in-order key sequence of the tree is
\* strictly increasing under the comparator.
C2_InOrderAscending == StrictlyAscending(InOrder(root))

\* A removal by key has left a tree of at least five entries.
C2_Witness ==
    /\ op.name = "remove"
    /\ ret # None
    /\ len >= 5

\* C3: after every operation len() equals the number of nodes reachable from
\* the root, which is the number of items a full traversal visits.
C3_LenCountsNodes ==
    /\ len = Count(root)
    /\ len = Len(iter(root, len))

\* An entry removal has left a tree of at least three entries.
C3_Witness ==
    /\ op.name = "entry_remove"
    /\ ret # None
    /\ len >= 3

RECURSIVE SizesConsistent(_)
\* size(node) = 1 + size(left) + size(right) at every node below the link.
SizesConsistent(t) ==
    \/ t = Nil
    \/ /\ t.augment = 1 + size_or0(t.left) + size_or0(t.right)
       /\ SizesConsistent(t.left)
       /\ SizesConsistent(t.right)

\* C4: in the order-statistics instantiation every node's augment satisfies
\* size(node) = 1 + size(left) + size(right) after every operation.
C4_SizesConsistent == SizesConsistent(root)

\* C5: in the order-statistics instantiation rank and select are mutual
\* inverses: select(rank(k)) is k for every present key k, and the rank of
\* the key select(i) returns is i for every index i < len().
C5_RankSelectInverse ==
    /\ \A k \in Keys :
           contains_key(root, k) =>
               /\ rank(root, k).ok
               /\ select(root, rank(root, k).n) # None
               /\ select(root, rank(root, k).n)[1].key = k
    /\ \A i \in Indices :
           i < len =>
               /\ select(root, i) # None
               /\ rank(root, select(root, i)[1].key) = [ok |-> TRUE, n |-> i]

\* C6: in the order-statistics instantiation select(i) is the i-th entry
\* (0-based) of the ascending iteration when i < len(), and None otherwise.
C6_SelectIsIth ==
    \A i \in Indices :
        IF i < len
        THEN select(root, i) = Some(iter(root, len)[i + 1])
        ELSE select(root, i) = None

\* C7: after insert(k, v) or the entry-API insert, get(k), get_mut(k) and
\* contains_key(k) report v and the iteration holds exactly one entry for k,
\* (k, v); after remove(k), get(k) is None, contains_key(k) is false and k
\* does not appear in the iteration.  (get_mut descends as get does.)
C7_InsertThenGetRemoveThenAbsent ==
    /\ op.name \in InsertCalls =>
           /\ get(root, op.key) = Some(op.value)
           /\ contains_key(root, op.key)
           /\ OnlyKey(iter(root, len), op.key) = <<[key |-> op.key, value |-> op.value]>>
    /\ op.name = "remove" =>
           /\ get(root, op.key) = None
           /\ ~contains_key(root, op.key)
           /\ OnlyKey(iter(root, len), op.key) = <<>>

\* An entry-API insert has replaced a different value in a map of three or
\* more entries.
C7_Witness ==
    /\ op.name = "entry_insert"
    /\ ret # None
    /\ ret[1] # op.value
    /\ len >= 3

\* C8: insert(k, v) and the entry-API insert return exactly what get(k)
\* reported before the call: None for an absent key, and len() grows by 1;
\* Some(old value) for a present key, and len() is unchanged.
C8_InsertReturnsOld ==
    [][op'.name \in InsertCalls =>
           /\ ret' = get(root, op'.key)
           /\ (ret' = None => len' = len + 1)
           /\ (ret' # None => len' = len)]_vars

\* An insert has returned an old value that differs from the new one.
C8_Witness ==
    /\ op.name = "insert"
    /\ ret # None
    /\ ret[1] # op.value
    /\ len >= 3

\* C9: every removal decrements len() by exactly 1 if it returns Some and
\* leaves len() unchanged if it returns None; remove(k) returns Some iff k
\* was present.
C9_RemovalSetsLen ==
    [][op'.name \in RemovalCalls =>
           /\ (ret' # None => len' = len - 1)
           /\ (ret' = None => len' = len)
           /\ (op'.name = "remove" => (ret' # None <=> contains_key(root, op'.key)))]_vars

\* A removal through succ_entry has succeeded and left five or more entries.
C9_Witness ==
    /\ op.name = "succ_entry_remove"
    /\ ret # None
    /\ len >= 5

\* C10: if a removal returns Some((k, _)), the ascending iteration afterwards
\* is the iteration before with only the entry for k deleted; if it returns
\* None the contents are those before the call.
C10_RemovalFrame ==
    [][op'.name \in RemovalCalls =>
           IF ret' = None
           THEN iter(root', len') = iter(root, len)
           ELSE iter(root', len') = WithoutKey(iter(root, len), ret'[1].key)]_vars

\* A removal of a predecessor has succeeded and left entries of both values.
C10_Witness ==
    /\ op.name = "remove_pred"
    /\ ret # None
    /\ len >= 3
    /\ \E i, j \in 1..len : iter(root, len)[i].value # iter(root, len)[j].value

\* C11: insert(k, v), through Map::insert or through the entry API, leaves
\* every entry whose key differs from k unchanged: the iteration restricted
\* to keys other than k is the same before and after the call.
C11_InsertFrame ==
    [][op'.name \in InsertCalls =>
           WithoutKey(iter(root', len'), op'.key) = WithoutKey(iter(root, len), op'.key)]_vars

\* An entry-API insert of a new key has produced a map of four entries that
\* hold both values.
C11_Witness ==
    /\ op.name = "entry_insert"
    /\ ret = None
    /\ len = 4
    /\ \E i, j \in 1..len : iter(root, len)[i].value # iter(root, len)[j].value

\* ---------------------------------------------------- iterator measures
Reverse(items) == [i \in 1..Len(items) |-> items[Len(items) + 1 - i]]
IsPrefix(p, items) == Len(p) <= Len(items) /\ p = SubSeq(items, 1, Len(p))
IsSuffix(p, items) ==
    Len(p) <= Len(items) /\ p = SubSeq(items, Len(items) - Len(p) + 1, Len(items))

\* The bound predicates of a range on a key.
AboveMin(k, min) ==
    \/ min.kind = "Unbounded"
    \/ min.kind = "Included" /\ compare(min.key, k) # "Greater"
    \/ min.kind = "Excluded" /\ compare(min.key, k) = "Less"
BelowMax(k, max) ==
    \/ max.kind = "Unbounded"
    \/ max.kind = "Included" /\ compare(max.key, k) # "Less"
    \/ max.kind = "Excluded" /\ compare(max.key, k) = "Greater"

\* The entries of the full ascending iteration that satisfy both bounds.
Within(items, min, max) ==
    SelectSeq(items, LAMBDA e : AboveMin(e.key, min) /\ BelowMax(e.key, max))

\* The last call on the open iterator found it exhausted.
Exhausted == op.name \in {"next", "next_back"} /\ ret = None

\* C12: for any tree and any pair of bounds, draining range(min, max) with
\* next() yields exactly the entries of the full ascending iteration whose
\* keys satisfy both bounds, in ascending order: what next() has yielded is
\* always a prefix of that subsequence, and all of it once next() returns None.
C12_RangeYieldsWithin ==
    (opened_by = "range" /\ yielded_back = <<>>) =>
        /\ IsPrefix(yielded, Within(iter(root, len), range_min, range_max))
        /\ Exhausted => yielded = Within(iter(root, len), range_min, range_max)

\* A range with an excluded lower and an included upper bound has been
\* drained from the front and has yielded two of the map's four entries.
C12_Witness ==
    /\ opened_by = "range"
    /\ range_min.kind = "Excluded"
    /\ range_max.kind = "Included"
    /\ Exhausted
    /\ yielded_back = <<>>
    /\ Len(yielded) = 2
    /\ len = 4

\* C13: draining range(min, max) from the back only yields the reverse of
\* what draining the same range from the front yields.
C13_RangeRevIsReverse ==
    (opened_by = "range" /\ yielded = <<>>) =>
        /\ IsPrefix(yielded_back, Reverse(range(root, len, range_min, range_max)))
        /\ Exhausted => yielded_back = Reverse(range(root, len, range_min, range_max))

\* A range with an included lower and an excluded upper bound has been
\* drained from the back and has yielded two of the map's four entries.
C13_Witness ==
    /\ opened_by = "range"
    /\ range_min.kind = "Included"
    /\ range_max.kind = "Excluded"
    /\ Exhausted
    /\ yielded = <<>>
    /\ Len(yielded_back) = 2
    /\ len = 4

\* C19: draining a full iterator with next() yields every entry of the map
\* exactly once, in strictly ascending key order, that is the in-order
\* traversal of the tree, and then returns None.
C19_IterIsInOrder ==
    (opened_by = "iter" /\ yielded_back = <<>>) =>
        /\ IsPrefix(yielded, InOrder(root))
        /\ StrictlyAscending(yielded)
        /\ Exhausted => (yielded = InOrder(root) /\ Iter_next(iterator).item = None)

\* A full iterator over a map of four entries has been drained by next().
C19_Witness ==
    /\ opened_by = "iter"
    /\ Exhausted
    /\ yielded_back = <<>>
    /\ Len(yielded) = 4

\* C20: under any interleaving of next() and next_back() on one full
\* iterator every entry is yielded exactly once in total: what next() has
\* returned is an ascending prefix of the in-order sequence, what next_back()
\* has returned is a descending suffix, the two never overlap, and once they
\* meet both calls return None.
C20_DoubleEnded ==
    opened_by = "iter" =>
        /\ IsPrefix(yielded, InOrder(root))
        /\ IsSuffix(Reverse(yielded_back), InOrder(root))
        /\ Len(yielded) + Len(yielded_back) <= Len(InOrder(root))
        /\ Exhausted => yielded \o Reverse(yielded_back) = InOrder(root)
        /\ Len(yielded) + Len(yielded_back) = Len(InOrder(root)) =>
               /\ Iter_next(iterator).item = None
               /\ Iter_next_back(iterator).item = None

\* Both ends of a full iterator over four entries have yielded two entries
\* each, and the last call found it exhausted.
C20_Witness ==
    /\ opened_by = "iter"
    /\ Exhausted
    /\ Len(yielded) = 2
    /\ Len(yielded_back) = 2

\* if get(k) is None { insert(k, v) }: the map afterwards.
InsertIfAbsent(t, n, k, v) ==
    IF value_of(Get_find(t, k)) = None
    THEN [tree |-> insert(t, k, v).link, len |-> n + 1]
    ELSE [tree |-> t, len |-> n]

\* or_insert has left the map as alt and returned what get_mut(k) finds there.
SameAs(alt, k) ==
    /\ iter(root', len') = iter(alt.tree, alt.len)
    /\ len' = alt.len
    /\ ret' = value_of(Get_find(alt.tree, k))

\* C14: entry(k).or_insert(v) is observationally equivalent to "if get(k) is
\* None then insert(k, v)" followed by get_mut(k): the same contents and len()
\* result, and the value returned is the one then stored under k.
C14_OrInsertEquivalent ==
    [][op'.name = "or_insert" =>
           SameAs(InsertIfAbsent(root, len, op'.key, op'.value), op'.key)]_vars

\* or_insert has found a value that differs from the default, in a map of
\* three or more entries.
C14_Witness ==
    /\ op.name = "or_insert"
    /\ ret # Some(op.value)
    /\ len >= 3

\* C15: entry(k) is Occupied exactly when get(k) is Some, and then the
\* entry's get() is the value get(k) returns; it is Vacant exactly when get(k)
\* is None.  The entry comes from find with the path-capturing builder, get
\* from find with the read-only builder.
C15_EntryAgreesWithGet ==
    \A k \in Keys :
        /\ is_occupied(root, find(root, k)) <=> value_of(Get_find(root, k)) # None
        /\ is_occupied(root, find(root, k)) =>
               Some(OccupiedEntry_get(root, find(root, k))) = value_of(Get_find(root, k))

\* A map of three entries after a removal: a vacant entry, an occupied entry
\* holding TRUE and an occupied entry holding FALSE are all looked up.
C15_Witness ==
    /\ len = 3
    /\ op.name = "remove_max"
    /\ \E k \in Keys : ~is_occupied(root, find(root, k))
    /\ \E k \in Keys : is_occupied(root, find(root, k)) /\ OccupiedEntry_get(root, find(root, k))
    /\ \E k \in Keys : is_occupied(root, find(root, k)) /\ ~OccupiedEntry_get(root, find(root, k))

\* The last entry of a sequence, if any.
LastOf(items) == IF items = <<>> THEN None ELSE Some(items[Len(items)])
FirstOf(items) == IF items = <<>> THEN None ELSE Some(items[1])

\* Scanning the iteration for the neighbours of q.
ScanPred(items, q, inclusive) ==
    LastOf(SelectSeq(items, LAMBDA e : e.key < q \/ (inclusive /\ e.key = q)))
ScanSucc(items, q, inclusive) ==
    FirstOf(SelectSeq(items, LAMBDA e : e.key > q \/ (inclusive /\ e.key = q)))

\* pred and succ on the map agree with scanning items, for every query.
NeighboursAgree(items) ==
    \A q \in Keys, inclusive \in BOOLEAN :
        /\ pred(root, q, inclusive) = ScanPred(items, q, inclusive)
        /\ succ(root, q, inclusive) = ScanSucc(items, q, inclusive)

\* C16: for any query key q, present or absent, pred(q, false) is the entry
\* with the greatest key < q, pred(q, true) the greatest key <= q,
\* succ(q, false) the smallest key > q, succ(q, true) the smallest key >= q,
\* and each is None exactly when no such key exists.
C16_PredSuccAgreeWithScan == NeighboursAgree(iter(root, len))

\* A tree of six entries after a removal from the seven-entry, level-3 tree:
\* the absent key has both a predecessor and a successor.
C16_Witness ==
    /\ op.name \in RemovalCalls
    /\ ret # None
    /\ len = 6
    /\ root.level = 2
    /\ \E q \in Keys : ~contains_key(root, q) /\ pred(root, q, FALSE) # None
                                              /\ succ(root, q, FALSE) # None

\* C17: min() is the first entry of the ascending iteration and max() the
\* last; both are None exactly when the map is empty.
C17_MinMaxAgreeWithIter ==
    /\ Map_min(root) = FirstOf(iter(root, len))
    /\ Map_max(root) = LastOf(iter(root, len))
    /\ (Map_min(root) = None) <=> (len = 0)
    /\ (Map_max(root) = None) <=> (len = 0)

\* A level-3 tree whose minimum and maximum differ.
C17_Witness ==
    /\ len = 7
    /\ root.level = 3
    /\ Map_min(root) # Map_max(root)

\* The query that a positional removal is paired with, on the map before.
QueryOf(call) ==
    IF call.name = "remove_min" THEN Map_min(root)
    ELSE IF call.name = "remove_max" THEN Map_max(root)
    ELSE IF call.name = "remove_pred" THEN pred(root, call.key, call.inclusive)
    ELSE succ(root, call.key, call.inclusive)

\* C18: remove_min, remove_max, remove_pred(q, inclusive) and
\* remove_succ(q, inclusive) return, and remove from the map, exactly the
\* entry min, max, pred(q, inclusive) or succ(q, inclusive) would have
\* returned just before the call; None when that query returns None.
C18_RemovalsMatchQueries ==
    [][op'.name \in {"remove_min", "remove_max", "remove_pred", "remove_succ"} =>
           /\ ret' = QueryOf(op')
           /\ ret' # None => iter(root', len') = WithoutKey(iter(root, len), ret'[1].key)
           /\ ret' # None => value_of(Get_find(root', ret'[1].key)) = None
           /\ ret' = None => iter(root', len') = iter(root, len)]_vars

\* remove_succ with an exclusive bound has removed an entry holding TRUE and
\* left three entries.
C18_Witness ==
    /\ op.name = "remove_succ"
    /\ ~op.inclusive
    /\ ret # None
    /\ ret[1].value
    /\ len = 3

\* C21: for a full iterator over a map of n entries, at every point of any
\* interleaving of next() and next_back() size_hint() is (r, Some(r)) with r
\* the number of entries not yet yielded: the count goes down only when an
\* item is emitted and is (0, Some(0)) once the iterator is exhausted.
C21_SizeHintExact ==
    opened_by = "iter" =>
        /\ Iter_size_hint(iterator) =
               <<len - Len(yielded) - Len(yielded_back),
                 Some(len - Len(yielded) - Len(yielded_back))>>
        /\ Exhausted => Iter_size_hint(iterator) = <<0, Some(0)>>

\* A full iterator over four entries has yielded one entry at the front and
\* two at the back: one entry remains.
C21_Witness ==
    /\ opened_by = "iter"
    /\ len = 4
    /\ Len(yielded) = 1
    /\ Len(yielded_back) = 2
    /\ Iter_size_hint(iterator) = <<1, Some(1)>>

\* The number of entries of items whose key is strictly less than q.
CountBelow(items, q) == Len(SelectSeq(items, LAMBDA e : e.key < q))

\* C27: in the order-statistics instantiation, in every state reachable by
\* inserts and removals, rank(q) is Ok(c) when q is present and Err(c) when q
\* is absent, where c is the number of keys in the map strictly less than q.
C27_RankCountsSmaller ==
    \A q \in Keys :
        rank(root, q) = [ok |-> value_of(Get_find(root, q)) # None,
                         n |-> CountBelow(iter(root, len), q)]

\* C29: in the order-statistics instantiation, after any sequence made only
\* of insertions (Map::insert, re-insertion of present keys included, and
\* VacantEntry::insert) on an initially empty map, every node's size is
\* 1 + size(left) + size(right) and the root's size is len().
C29_InsertOnlySizes ==
    /\ SizesConsistent(root)
    /\ size_or0(root) = len

\* A present key has been inserted again into a map of four entries built
\* by insertions: the root is at level 2 and counts four nodes.
C29_Witness ==
    /\ op.name = "insert"
    /\ ret # None
    /\ len = 4
    /\ root.level = 2
    /\ root.augment = 4

\* C25: for an absent key k, inserting through the entry API (entry(k),
\* Vacant, insert(v): skew, split and bottom_up replayed up the captured
\* path) leaves a tree identical in shape, levels and augments, and the same
\* len(), as the recursive Map::insert(k, v) on the same starting tree.
C25_EntryInsertIsInsert ==
    [][(op'.name \in {"entry_insert", "or_insert"} /\ Get_find(root, op'.key) = None) =>
           /\ root' = insert(root, op'.key, op'.value).link
           /\ len' = IF insert(root, op'.key, op'.value).old = None THEN len + 1 ELSE len]_vars

\* An entry insert of an absent key below three entries has raised no level
\* at the root: the fourth node hangs off a level-1 node, and the sizes
\* along its path count it.
C25_Witness ==
    /\ op.name = "entry_insert"
    /\ ret = None
    /\ len = 4
    /\ root.level = 2
    /\ root.augment = 4
    /\ \E side \in {"L", "R"} : Sub(root, <<side>>).augment = 2

\* The addresses of the proper ancestors of a link, root first.
ProperAncestors(link) == [i \in 1..Len(link) |-> SubSeq(link, 1, i - 1)]

\* Every traversal a public call runs with the path-capturing builder.
Traversals(t) ==
    {find(t, k) : k \in Keys}
        \cup {extreme(ext, t) : ext \in {"Min", "Max"}}
        \cup {closest(ext, t, k, inclusive) :
                  ext \in {"Min", "Max"}, k \in Keys, inclusive \in BOOLEAN}

\* The addresses at which the replay of a removal calls Node::rebalance.
ReplayedAt(t, p) == [i \in 1..Len(replayed(t, p)) |-> replayed(t, p)[i].pos]

\* The path lists the proper ancestors of its terminal link, and a removal
\* at that link replays them deepest first.
PathIsAncestors(t, p) ==
    /\ p.path = ProperAncestors(p.link)
    /\ is_occupied(t, p) => ReplayedAt(t, p) = Reverse(ProperAncestors(p.link))

\* C26: for every traversal run with the path-capturing builder (find by
\* key, min / max, pred / succ inclusive or exclusive) the Path's ancestor
\* list is exactly the chain of proper ancestors of the terminal link, root
\* first; a neighbour traversal that falls back to a saved ancestor drops
\* that ancestor and everything visited below it, so the replay after a
\* removal rebalances exactly the removed node's ancestors, deepest first.
C26_PathIsAncestorChain == \A p \in Traversals(root) : PathIsAncestors(root, p)

\* succ(q, exclusive) for a key q held two links below the root falls back
\* to the root: the root and the two nodes visited below it are dropped
\* from the path.
C26_Witness ==
    \E q \in Keys :
        /\ Len(find(root, q).link) = 2
        /\ is_occupied(root, find(root, q))
        /\ closest("Max", root, q, FALSE) = [path |-> <<>>, link |-> <<>>]

RECURSIVE Height(_)
\* The number of nodes on the longest path from the link down to a leaf.
Height(t) ==
    IF t = Nil THEN 0
    ELSE 1 + (IF Height(t.left) >= Height(t.right) THEN Height(t.left) ELSE Height(t.right))

RECURSIVE Pow2(_)
Pow2(n) == IF n = 0 THEN 1 ELSE 2 * Pow2(n - 1)

RECURSIVE Log2Floor(_)
\* floor(log2(n)) for n >= 1
Log2Floor(n) == IF n <= 1 THEN 0 ELSE 1 + Log2Floor(n \div 2)

\* Every captured path has at most bound ancestors.
PathsWithin(paths, bound) == \A p \in paths : Len(p.path) <= bound

\* C28: in every reachable state with n >= 1 entries the root's level L
\* satisfies 2^L - 1 <= n and the height of the tree is at most 2 * L, so
\* every descent and every captured Path is at most 2 * floor(log2(n + 1))
\* long.
C28_LogarithmicHeight ==
    len >= 1 =>
        /\ Pow2(root.level) - 1 <= len
        /\ Height(root) <= 2 * root.level
        /\ Height(root) <= 2 * Log2Floor(len + 1)
        /\ PathsWithin(Traversals(root), 2 * Log2Floor(len + 1))

\* After a removal the tree is as tall as its level allows: level 2 and a
\* path of four nodes.
C28_Witness ==
    /\ op.name \in RemovalCalls
    /\ ret # None
    /\ len >= 4
    /\ root.level = 2
    /\ Height(root) = 4

\* The elements of a sequence.
Elems(seq) == {seq[i] : i \in 1..Len(seq)}

\* The nodes Node::split is called with by the inserts a map accepts next.
InsertSplitCalls(t) ==
    UNION {Elems(insert_split_calls(t, k, v)) : k \in Keys, v \in Values}
EntrySplitCalls(t) ==
    UNION {IF is_occupied(t, find(t, k)) THEN {}
           ELSE Elems(VacantEntry_insert_split_calls(t, find(t, k), k, v)) :
               k \in Keys, v \in Values}

\* The nodes Node::rebalance is called with by the removals a map accepts
\* next, and the nodes those calls pass to Node::split.
RebalanceCalls(t) == UNION {Elems(remove_calls(t, p)) : p \in Traversals(t)}
RebalanceSplitCalls(t) == UNION {Elems(rebalance_split_calls(n)) : n \in RebalanceCalls(t)}

\* A rotating split finds a double right horizontal link and leaves the
\* promoted node one level above both its children.
SplitRotationSound(node) ==
    split_cond(node) =>
        /\ node.right.level = node.level
        /\ node.right.right.level = node.level
        /\ split(node).level = split(node).left.level + 1
        /\ split(node).level = split(node).right.level + 1

\* C23: whenever split performs its left rotation in a reachable call (from
\* insert, VacantEntry::insert or rebalance) the right child and the right
\* child's right child are both at the node's level, and afterwards the
\* promoted node's level is one more than the level of each of its children.
C23_SplitRotatesDoubleLink ==
    \A node \in InsertSplitCalls(root) \cup EntrySplitCalls(root)
                  \cup RebalanceSplitCalls(root) :
        SplitRotationSound(node)

\* From this map an insert and an entry insert make split rotate at level 2
\* (raising a node to level 3), and the rebalance of a removal makes split
\* rotate both at the lowered node and at its right child.
C23_Witness ==
    /\ \E node \in InsertSplitCalls(root) : split_cond(node) /\ node.level = 2
    /\ \E node \in EntrySplitCalls(root) : split_cond(node) /\ node.level = 2
    /\ \E node \in RebalanceCalls(root) :
           /\ Len(rebalance_split_calls(node)) = 2
           /\ split_cond(rebalance_split_calls(node)[1])
           /\ split_cond(rebalance_split_calls(node)[2])

RECURSIVE LevelsPositive(_)
\* Every node below the link has level >= 1.
LevelsPositive(t) ==
    \/ t = Nil
    \/ /\ t.level >= 1
       /\ LevelsPositive(t.left)
       /\ LevelsPositive(t.right)

\* The paths a removal can be made through: every traversal, and select in
\* the order-statistics instantiation.
RemovalPaths(t) ==
    Traversals(t) \cup
        (IF inst = "orderstat" THEN {select_path(t, i) : i \in Indices} ELSE {})

\* A removal through the path underflows neither level - 1 in any rebalance
\* call nor len, and hands OccupiedEntry::remove a pair to unwrap.
RemovalSafe(t, n, p) ==
    /\ \A node \in Elems(remove_calls(t, p)) : ~rebalance_underflows(node)
    /\ Path_remove(t, n, p).len >= 0
    /\ is_occupied(t, p) => Path_remove(t, n, p).key_value # None

\* C22: no reachable call panics: every node's level is >= 1, also when
\* rebalance is called with it, so level - 1 never underflows; len() is never
\* decremented below 0; the iterator's remaining count is never decremented
\* below 0, range trimming with any pair of bounds included; index -= r + 1
\* in select never underflows; and OccupiedEntry::remove always finds a node
\* at the captured link.
C22_NoPanic ==
    /\ LevelsPositive(root)
    /\ len >= 0
    /\ iterator.size >= 0
    /\ \A p \in RemovalPaths(root) : RemovalSafe(root, len, p)
    /\ inst = "orderstat" => \A i \in Indices : ~select_underflows(root, i)

\* A range whose lower bound lies above its upper bound has been opened on
\* a map of four entries: trimming has discarded every frame and has left
\* a remaining count that is still not negative.
C22_Witness ==
    /\ opened_by = "range"
    /\ op.name = "range"
    /\ len = 4
    /\ range_min.kind # "Unbounded"
    /\ range_max.kind # "Unbounded"
    /\ range_min.key > range_max.key
    /\ iterator.visits = <<>>
    /\ iterator.size >= 0

\* ------------------------------------------- Node::rebalance on its own
\* A node over unit values with the given level, key and children.
Node_with(level, left, key, right) ==
    [left |-> left, right |-> right, level |-> level, key |-> key, value |-> Unit,
     augment |-> Unit]

RECURSIVE AATrees(_, _, _, _)
\* The subtrees assert_andersson_tree accepts that have the root level,
\* exactly n nodes and the keys lo .. lo + n - 1 in order; with red_ok false
\* the root's right child is not at the root's level.
AATrees(level, n, lo, red_ok) ==
    IF level = 0 THEN (IF n = 0 THEN {Nil} ELSE {})
    ELSE IF n < Pow2(level) - 1 THEN {}
    ELSE UNION {
        {Node_with(level, l, lo + nl, r) :
            l \in AATrees(level - 1, nl, lo, TRUE),
            r \in AATrees(level - 1, n - 1 - nl, lo + nl + 1, TRUE) \cup
                  (IF red_ok THEN AATrees(level, n - 1 - nl, lo + nl + 1, FALSE)
                   ELSE {})} :
        nl \in 0..(n - 1)}

\* The nodes of the level with n nodes below and including them that
\* Path::remove_ hands to Node::rebalance: valid subtrees on both sides, the
\* root of one of them one level lower than it was while the node was valid
\* (an emptied subtree has gone from level 1 to level 0).
LeftLowered(level, n) ==
    IF level < 2 THEN {}
    ELSE UNION {
        {Node_with(level, l, 1 + nl, r) :
            l \in AATrees(level - 2, nl, 1, TRUE),
            r \in AATrees(level - 1, n - 1 - nl, nl + 2, TRUE) \cup
                  AATrees(level, n - 1 - nl, nl + 2, FALSE)} :
        nl \in 0..(n - 1)}
RightLowered(level, n) ==
    UNION {
        {Node_with(level, l, 1 + nl, r) :
            l \in AATrees(level - 1, nl, 1, TRUE),
            r \in AATrees(level - 1, n - 1 - nl, nl + 2, TRUE) \cup
                  (IF level < 2 THEN {}
                   ELSE AATrees(level - 2, n - 1 - nl, nl + 2, TRUE))} :
        nl \in 0..(n - 1)}
Deficient(max) ==
    UNION {LeftLowered(level, n) \cup RightLowered(level, n) :
               level \in 1..(Log2Floor(max + 1) + 1), n \in 1..max}

\* A node of a removal's path, as the removal below it has left it.
InitRebalance ==
    /\ inst = "unit"
    /\ root \in Deficient(MaxNodes)
    /\ len = Count(root)
    /\ op = Call("deficient", root.key, Unit, FALSE)
    /\ ret = None
    /\ opened_by = NoIterator.opened_by
    /\ iterator = NoIterator.iterator
    /\ range_min = NoIterator.range_min
    /\ range_max = NoIterator.range_max
    /\ yielded = <<>>
    /\ yielded_back = <<>>

\* Node::rebalance applied to the node; op.key keeps the key of the node it
\* was called with.
Rebalance ==
    /\ op.name = "deficient"
    /\ root' = rebalance(root)
    /\ op' = Call("rebalance", root.key, Unit, FALSE)
    /\ UNCHANGED <<inst, len, ret, opened_by, iterator, range_min, range_max,
                   yielded, yielded_back>>

NextRebalance == Rebalance
SpecRebalance == InitRebalance /\ [][NextRebalance]_vars

\* The node satisfies the level rules of an AA tree at its own position when
\* its children have the levels ll and rl.
LevelsAt(node, ll, rl) ==
    /\ (ll = 0 \/ rl = 0) => node.level = 1
    /\ ll # 0 => ll = node.level - 1
    /\ rl # 0 => rl \in {node.level, node.level - 1}
    /\ (rl = node.level /\ node.right # Nil /\ node.right.right # Nil)
           => node.right.right.level < node.level

\* Both subtrees are valid AA trees and the node was valid until the root
\* of one child subtree was lowered by exactly one level.
OneLevelDeficient(node) ==
    /\ AALevels(node.left)
    /\ AALevels(node.right)
    /\ \/ LevelsAt(node, level_or0(node.left) + 1, level_or0(node.right))
       \/ LevelsAt(node, level_or0(node.left), level_or0(node.right) + 1)

\* C24: for any node whose two subtrees are valid AA trees and which was
\* valid until a removal lowered the level of one child subtree's root by
\* exactly one, rebalance(node) produces a valid AA subtree with the same
\* in-order key sequence whose root level is the node's level or one less.
C24_RebalanceRestores ==
    [][(op'.name = "rebalance" /\ OneLevelDeficient(root)) =>
            /\ AALevels(root')
            /\ InOrder(root') = InOrder(root)
            /\ root'.level \in {root.level, root.level - 1}]_vars

\* rebalance has been applied to a node of nine nodes and has left a valid
\* subtree of level 3 under another root than the node it was called with.
C24_Witness ==
    /\ op.name = "rebalance"
    /\ len = 9
    /\ root.key # op.key
    /\ root.level = 3
    /\ AALevels(root)

\* ------------------------------------------------ the abstract sorted map
\* An abstract map is a function from keys to values, written as its graph:
\* a set of entries with at most one entry for a key.
AbsOf(items) == {items[i] : i \in 1..Len(items)}
IsGraph(m) == \A e \in m, f \in m : e.key = f.key => e = f
AbsKeys(m) == {e.key : e \in m}
AbsAt(m, k) == CHOOSE e \in m : e.key = k

Least(S) == CHOOSE x \in S : \A y \in S : x <= y
Greatest(S) == CHOOSE x \in S : \A y \in S : x >= y
AbsWithout(m, k) == {e \in m : e.key # k}
AbsWith(m, k, v) == AbsWithout(m, k) \cup {[key |-> k, value |-> v]}
AbsPair(m, k) == Some(AbsAt(m, k))

RECURSIVE AbsItems(_)
\* The entries of the abstract map in ascending key order.
AbsItems(m) ==
    IF m = {} THEN <<>>
    ELSE <<AbsAt(m, Least(AbsKeys(m)))>> \o AbsItems(AbsWithout(m, Least(AbsKeys(m))))

AbsGet(m, k) == IF k \in AbsKeys(m) THEN Some(AbsAt(m, k).value) ELSE None
AbsBelow(m, q, inclusive) == {x \in AbsKeys(m) : x < q \/ (inclusive /\ x = q)}
AbsAbove(m, q, inclusive) == {x \in AbsKeys(m) : x > q \/ (inclusive /\ x = q)}
AbsMinKey(m) == IF m = {} THEN None ELSE Some(Least(AbsKeys(m)))
AbsMaxKey(m) == IF m = {} THEN None ELSE Some(Greatest(AbsKeys(m)))
AbsPredKey(m, q, inclusive) ==
    IF AbsBelow(m, q, inclusive) = {} THEN None ELSE Some(Greatest(AbsBelow(m, q, inclusive)))
AbsSuccKey(m, q, inclusive) ==
    IF AbsAbove(m, q, inclusive) = {} THEN None ELSE Some(Least(AbsAbove(m, q, inclusive)))
AbsEntry(m, k) == IF k = None THEN None ELSE AbsPair(m, k[1])

\* The key an abstract removal call removes, if any.
AbsTarget(m, call) ==
    IF call.name \in {"remove", "entry_remove"}
    THEN (IF call.key \in AbsKeys(m) THEN Some(call.key) ELSE None)
    ELSE IF call.name \in {"remove_min", "min_entry_remove"} THEN AbsMinKey(m)
    ELSE IF call.name \in {"remove_max", "max_entry_remove"} THEN AbsMaxKey(m)
    ELSE IF call.name \in {"remove_pred", "pred_entry_remove"}
         THEN AbsPredKey(m, call.key, call.inclusive)
    ELSE AbsSuccKey(m, call.key, call.inclusive)

AbsRemoved(m, k) ==
    IF k = None THEN [map |-> m, ret |-> None]
    ELSE [map |-> AbsWithout(m, k[1]), ret |-> AbsPair(m, k[1])]

\* The abstract map and the returned value after the call.
AbsStep(m, call) ==
    IF call.name = "clear" THEN [map |-> {}, ret |-> None]
    ELSE IF call.name \in InsertCalls
    THEN [map |-> AbsWith(m, call.key, call.value), ret |-> AbsGet(m, call.key)]
    ELSE IF call.name = "or_insert"
    THEN (IF call.key \in AbsKeys(m)
          THEN [map |-> m, ret |-> AbsGet(m, call.key)]
          ELSE [map |-> AbsWith(m, call.key, call.value), ret |-> Some(call.value)])
    ELSE AbsRemoved(m, AbsTarget(m, call))

\* The queries on the tree answer as the abstract map does.
AbsQueriesAgree(m) ==
    /\ \A k \in Keys : get(root, k) = AbsGet(m, k)
    /\ Map_min(root) = AbsEntry(m, AbsMinKey(m))
    /\ Map_max(root) = AbsEntry(m, AbsMaxKey(m))
    /\ \A q \in Keys, inclusive \in BOOLEAN :
           /\ pred(root, q, inclusive) = AbsEntry(m, AbsPredKey(m, q, inclusive))
           /\ succ(root, q, inclusive) = AbsEntry(m, AbsSuccKey(m, q, inclusive))

AbsStateAgrees(items) ==
    /\ IsGraph(AbsOf(items))
    /\ items = AbsItems(AbsOf(items))
    /\ AbsQueriesAgree(AbsOf(items))

\* The call returned what the abstract call returns and left the contents
\* the abstract call leaves (their order is AbsStateAgrees's part).
AbsStepAgrees(after, returned, items) ==
    /\ returned = after.ret
    /\ AbsOf(items) = after.map

RECURSIVE Rebuilt(_, _)
\* The tree that inserting the items one by one into the link builds.
Rebuilt(link, items) ==
    IF items = <<>> THEN link
    ELSE Rebuilt(insert(link, items[1].key, items[1].value).link, Tail(items))

\* C30: for every sequence of public operations on an initially empty map
\* the returned values (insert's old value, the removed pair of every
\* removal, get, min, max, pred, succ) and the ascending iteration are those
\* of an abstract sorted finite map, a function from keys to values, driven
\* by the same operations, whatever shape the tree has.  The iteration is
\* the in-order sequence of the tree in every state, and every call is
\* compared with the abstract call on the map that sequence stands for.
C30_RefinesSortedMap ==
    /\ [](op.name = "new" => iter(root, len) = <<>>)
    /\ [](iter(root, len) = InOrder(root))
    /\ []AbsStateAgrees(InOrder(root))
    /\ [][AbsStepAgrees(AbsStep(AbsOf(InOrder(root)), op'), ret',
                        InOrder(root'))]_vars

\* or_insert has found a value other than its default in a map of four
\* entries of both values, whose tree has another shape than the one that
\* inserting the same entries in ascending order builds.
C30_Witness ==
    /\ op.name = "or_insert"
    /\ ret # Some(op.value)
    /\ len = 4
    /\ \E i, j \in 1..len : iter(root, len)[i].value # iter(root, len)[j].value
    /\ root # Rebuilt(Nil, iter(root, len))
    /\ AbsStateAgrees(iter(root, len))

\* ------------------------------------------------ range iterators, both ends
\* The front has yielded a prefix and the back the reverse of a suffix of
\* items, the two do not overlap, and together they are all of items once a
\* call has found the iterator exhausted.
YieldedOnceFrom(items) ==
    /\ IsPrefix(yielded, items)
    /\ IsSuffix(Reverse(yielded_back), items)
    /\ Len(yielded) + Len(yielded_back) <= Len(items)
    /\ Exhausted => yielded \o Reverse(yielded_back) = items
    /\ Len(yielded) + Len(yielded_back) = Len(items) =>
           /\ Iter_next(iterator).item = None
           /\ Iter_next_back(iterator).item = None

\* C31: for any tree, any pair of bounds and any interleaving of next() and
\* next_back() on a range iterator, every in-range entry is yielded exactly
\* once and no out-of-range entry is ever yielded: the markers the two trims
\* leave on the frames never make a discarded subtree be revisited or a kept
\* subtree be skipped.
C31_RangeDoubleEnded ==
    opened_by = "range" => YieldedOnceFrom(Within(InOrder(root), range_min, range_max))

\* A range bounded on both sides over a map of four entries has yielded one
\* entry at each end and has then been found exhausted.
C31_Witness ==
    /\ opened_by = "range"
    /\ range_min.kind # "Unbounded"
    /\ range_max.kind # "Unbounded"
    /\ len = 4
    /\ Len(yielded) = 1
    /\ Len(yielded_back) = 1
    /\ Exhausted

\* --------------------------------------------- iterators over any AA tree
RECURSIVE Spread(_)
\* The same tree over the even keys 2, 4, ..: the odd numbers lie below,
\* between and above its keys.
Spread(t) ==
    IF t = Nil THEN Nil
    ELSE [t EXCEPT !.key = 2 * t.key, !.left = Spread(t.left), !.right = Spread(t.right)]

\* The trees assert_andersson_tree accepts that hold at most max entries.
IterTrees(max) ==
    {Spread(t) : t \in UNION {AATrees(level, n, 1, TRUE) :
                                  level \in 0..Log2Floor(max + 1), n \in 0..max}}

\* The bounds on the keys of a tree of n entries and on the gaps around them.
BoundsOver(n) ==
    {Unbounded} \cup {Included(x) : x \in 1..(2 * n + 1)}
                \cup {Excluded(x) : x \in 1..(2 * n + 1)}

\* Map::iter or Map::range has just handed out an iterator over a map.
InitIter ==
    /\ inst = "ranged"
    /\ root \in IterTrees(MaxIterNodes)
    /\ len = Count(root)
    /\ ret = None
    /\ yielded = <<>>
    /\ yielded_back = <<>>
    /\ \/ /\ opened_by = "iter"
          /\ range_min = Unbounded
          /\ range_max = Unbounded
          /\ iterator = Iter_new(root, len)
       \/ /\ opened_by = "range"
          /\ range_min \in BoundsOver(len)
          /\ range_max \in BoundsOver(len)
          /\ iterator = Iter_range(root, len, range_min, range_max)
    /\ op = Call(opened_by, 0, Unit, FALSE)

\* The calls on an open iterator.
NextIter ==
    \/ IterNext
    \/ IterNextBack

SpecIter == InitIter /\ [][NextIter]_vars

\* The number of entries of items that neither end has yielded yet.
Remaining(items) == Len(items) - Len(yielded) - Len(yielded_back)

\* The hint's lower bound is at most n and its upper bound is at least n.
Brackets(hint, n) ==
    /\ hint[1] <= n
    /\ hint[2] # None
    /\ hint[2][1] >= n

\* C32: for a range iterator over any tree and pair of bounds, at every
\* point of the iteration the size hint (visits.len(), Some(size)) brackets
\* the truth: the deque holds at most as many frames as there are in-range
\* entries not yet yielded, and size is at least that number.
C32_RangeSizeHintBrackets ==
    opened_by = "range" =>
        Brackets(Iter_range_size_hint(iterator),
                 Remaining(Within(InOrder(root), range_min, range_max)))

\* Both ends of a range over seven or more entries have yielded an entry,
\* and the hint is strict on both sides: fewer frames than entries that
\* remain, and a size above their number.
C32_Witness ==
    /\ opened_by = "range"
    /\ len >= 7
    /\ yielded # <<>>
    /\ yielded_back # <<>>
    /\ Iter_range_size_hint(iterator)[1] <
           Remaining(Within(InOrder(root), range_min, range_max))
    /\ Iter_range_size_hint(iterator)[2][1] >
           Remaining(Within(InOrder(root), range_min, range_max))

\* The keys either end has yielded, and the keys of the frames.
YieldedKeys ==
    {yielded[i].key : i \in 1..Len(yielded)} \cup
        {yielded_back[i].key : i \in 1..Len(yielded_back)}
FrameKeys(visits) == {visits[i].node.key : i \in 1..Len(visits)}

\* The frames hold pairwise distinct nodes, in strictly decreasing key order
\* from the front to the back.
FramesDescend(visits) ==
    /\ \A i \in 1..Len(visits), j \in 1..Len(visits) :
           i # j => visits[i].node.key # visits[j].node.key
    /\ \A i \in 1..(Len(visits) - 1) :
           compare(visits[i].node.key, visits[i + 1].node.key) = "Greater"

\* A child that has been pushed or yielded: the child is present and its
\* key is on a frame or has been yielded.
Pushed(link, visits) ==
    link # Nil /\ link.key \in (FrameKeys(visits) \cup YieldedKeys)

\* A frame marked as having seen a side hands that child out no more, and
\* a child a frame can still hand out has not been pushed before.
PushedOnce(visit, visits) ==
    /\ visit.seen \in {"L", "B"} => Visit_left(visit).child = Nil
    /\ visit.seen \in {"R", "B"} => Visit_right(visit).child = Nil
    /\ ~Pushed(Visit_left(visit).child, visits)
    /\ ~Pushed(Visit_right(visit).child, visits)

\* C33: in every reachable iterator state, full or range, under any
\* interleaving of next() and next_back(), the deque of Visit frames holds
\* pairwise distinct nodes that have not been yielded, their keys strictly
\* decrease from the front of the deque to the back, and a frame marked as
\* having seen a side never has that child pushed again.
C33_DequeFrames ==
    opened_by # "none" =>
        /\ FramesDescend(iterator.visits)
        /\ FrameKeys(iterator.visits) \cap YieldedKeys = {}
        /\ \A i \in 1..Len(iterator.visits) :
               PushedOnce(iterator.visits[i], iterator.visits)

\* Both ends of an iterator have yielded entries and three frames are on
\* the deque, one of them marked on both sides and one on neither.
C33_Witness ==
    /\ opened_by # "none"
    /\ yielded # <<>>
    /\ yielded_back # <<>>
    /\ Len(iterator.visits) >= 3
    /\ \E i \in 1..Len(iterator.visits) : iterator.visits[i].seen = "B"
    /\ \E i \in 1..Len(iterator.visits) : iterator.visits[i].seen = "N"

\* ------------------------------------------------- what a removal unlinks
\* The key the node at the link holds once the replacement is swapped in.
SwappedKey(node) == swap_in(node, extract(node)).key

\* A removal at the node unlinks a leaf; a node with a left subtree gets the
\* maximum of that subtree, a node with only a right subtree the minimum of
\* it, and the replacement is a leaf of the tree as it was.
UnlinksLeaf(t, p, node) ==
    /\ unlinked(t, p).left = Nil
    /\ unlinked(t, p).right = Nil
    /\ remove_depth(t, p) <= 2
    /\ node.left # Nil =>
           /\ SwappedKey(node) = InOrder(node.left)[Len(InOrder(node.left))].key
           /\ unlinked(t, p).key = SwappedKey(node)
           /\ remove_depth(t, p) = 2
    /\ (node.left = Nil /\ node.right # Nil) =>
           /\ SwappedKey(node) = InOrder(node.right)[1].key
           /\ unlinked(t, p).key = SwappedKey(node)
           /\ remove_depth(t, p) = 2
    /\ (node.left = Nil /\ node.right = Nil) => unlinked(t, p) = node

\* C34: in every removal performed on a reachable tree the node that is
\* physically unlinked has no children: removing a node with a left subtree
\* swaps in the maximum of that subtree, removing a node with only a right
\* subtree swaps in the minimum of that subtree, in both cases the extracted
\* extremum is a leaf, and the nested extraction in Path::remove_ never
\* recurses more than one level.
C34_UnlinkedIsLeaf ==
    \A p \in Traversals(root) :
        is_occupied(root, p) => UnlinksLeaf(root, p, Sub(root, p.link))

\* A removal has left a tree of five or more entries that accepts a removal
\* at its root, whose left subtree holds two entries, and a removal at a
\* node with only a right child.
C34_Witness ==
    /\ op.name \in RemovalCalls
    /\ ret # None
    /\ len >= 5
    /\ remove_depth(root, build_closed(<<>>, <<>>)) = 2
    /\ Count(root.left) = 2
    /\ \E p \in Traversals(root) :
           /\ is_occupied(root, p)
           /\ Sub(root, p.link).left = Nil
           /\ Sub(root, p.link).right # Nil

\* ---------------------------------------------- inserting an equal key
\* The tree with the value of the node at the path replaced and nothing
\* else touched.
WithValueAt(t, p, v) == Put(t, p.link, [Sub(t, p.link) EXCEPT !.value = v])

\* C35: when a key that the comparator treats as equal to a stored key is
\* inserted, through Map::insert or through entry(k) -> Occupied -> insert,
\* only the value is replaced: the key object stored before stays in the
\* node, and the shape, the levels and the augments of the tree are
\* unchanged.
C35_EqualKeyReplacesValueOnly ==
    [][(op'.name \in InsertCalls /\ is_occupied(root, find(root, op'.key))) =>
           /\ root' = WithValueAt(root, find(root, op'.key), op'.value)
           /\ len' = len]_vars

====
